---- MODULE Spec2Model ----
(***************************************************************************)
(* The sampling approval routes of goose-server                            *)
(* (crates/goose-server/src/routes/sampling.rs).                           *)
(*                                                                         *)
(* A task is one HTTP request being served.  It enters one of the two      *)
(* handlers with the JSON body the router extracted, and, on the           *)
(* approve/edit path, suspends at each of the three awaits of              *)
(* process_sampling: the session -> agent lookup, the agent -> provider    *)
(* lookup and the provider's completion.  The replies of these three       *)
(* collaborators are chosen by the environment when the await resumes.     *)
(*                                                                         *)
(*   pc[t]        where task t stands                                      *)
(*   handler[t]   the handler the router gave the request to               *)
(*   request[t]   the body the caller sent; it is forgotten once the       *)
(*                provider's completion has answered (what the handler     *)
(*                returns then depends on the answer alone), or once the   *)
(*                response is written out                                  *)
(*   sampling[t]  the arguments process_sampling was entered with          *)
(*   agent[t]     the agent the session resolved to                        *)
(*   calls[t]     what stubs of the collaborators have captured during     *)
(*                this invocation: each call with its arguments and, once  *)
(*                it has returned, its answer, in order                    *)
(*   result[t]    what the handler returned                                *)
(***************************************************************************)
EXTENDS Integers, Sequences, FiniteSets

VARIABLES pc, handler, request, sampling, agent, calls, result

vars == <<pc, handler, request, sampling, agent, calls, result>>

----------------------------------------------------------------------------
(* Bounds of the model *)

\* longest message sequence of a request, and of an edit
MaxMessages == 2
\* longest content sequence of a provider reply
MaxBlocks == 2

----------------------------------------------------------------------------
(* Values *)

\* Option<T>
None == [some |-> FALSE]
Some(v) == [some |-> TRUE, value |-> v]
OptionOf(S) == {None} \cup {Some(v) : v \in S}

\* Result<T, E>
Ok(v) == [ok |-> TRUE, value |-> v]
Err(e) == [ok |-> FALSE, error |-> e]

SeqsUpTo(S, n) == UNION {[1..k -> S] : k \in 0..n}

\* axum::http::StatusCode
BAD_REQUEST == 400
INTERNAL_SERVER_ERROR == 500

\* rmcp::model::Role
Roles == {"User", "Assistant"}

\* rmcp::model::Content
TextContent(text) == [type |-> "text", text |-> text]
ImageContent(data, mime_type) ==
    [type |-> "image", data |-> data, mime_type |-> mime_type]

\* Content::as_text
as_text(content) == IF content.type = "text" THEN Some(content) ELSE None

\* struct SamplingMessage
SamplingMessage(role, content) == [role |-> role, content |-> content]

\* goose::conversation::message::MessageContent
TextBlock(text) == [kind |-> "Text", text |-> text]
ImageBlock(data, mime_type) ==
    [kind |-> "Image", data |-> data, mime_type |-> mime_type]
ToolRequestBlock(id) == [kind |-> "ToolRequest", id |-> id]

\* goose::conversation::message::Message and its builders
MessageUser == [role |-> "User", content |-> <<>>]
MessageAssistant == [role |-> "Assistant", content |-> <<>>]
with_content(message, block) ==
    [message EXCEPT !.content = Append(@, block)]
with_text(message, text) == with_content(message, TextBlock(text))

\* impl From<Content> for MessageContent
ContentInto(content) ==
    CASE content.type = "text" -> TextBlock(content.text)
      [] content.type = "image" -> ImageBlock(content.data, content.mime_type)
      [] OTHER -> [kind |-> "Other", raw |-> content]

\* struct SamplingResponse
SamplingResponse(message, model, stop_reason) ==
    [message |-> message, model |-> model, stop_reason |-> stop_reason]

----------------------------------------------------------------------------
(* The inputs the handlers are driven with *)

Tasks == {"t1"}

SessionIds == {"s1", "s2"}
Models == {"stub-1", "none"}
SystemPrompts == {"", "Answer briefly"}

\* the action strings a reviewer's decision is submitted with
ActionTags == {"approve", "edit", "deny", "Approve", "", "unknown-value"}

SamplingMessages ==
    { SamplingMessage("User", TextContent("2+2?")),
      SamplingMessage("Assistant", TextContent("4")),
      SamplingMessage("User", ImageContent("iVBORw0KGgo=", "image/png")) }

MessageSeqs == SeqsUpTo(SamplingMessages, MaxMessages)

\* struct SamplingRequest
SamplingRequests ==
    { [ session_id |-> s, extension_name |-> "developer", messages |-> m,
        model_preferences |-> None, system_prompt |-> p,
        include_context |-> None, temperature |-> None, max_tokens |-> 256,
        stop_sequences |-> None, metadata |-> None ] :
      s \in SessionIds, m \in MessageSeqs, p \in OptionOf(SystemPrompts) }

\* struct SamplingApprovalRequest
SamplingApprovalRequests ==
    [ session_id : SessionIds, original_request : SamplingRequests,
      action : ActionTags, edited_messages : OptionOf(MessageSeqs) ]

\* what a provider can answer: (Message, ProviderUsage) or an error
ReplyBlocks ==
    { TextBlock("4"), ImageBlock("R0lGODlh", "image/gif"), ToolRequestBlock("call-1") }
ProviderFailures == {"network", "quota", "malformed response"}
CompletionReplies ==
    { Ok([response |-> [role |-> r, content |-> c], usage |-> [model |-> m]]) :
      r \in Roles, c \in SeqsUpTo(ReplyBlocks, MaxBlocks), m \in Models }
    \cup { Err(f) : f \in ProviderFailures }

----------------------------------------------------------------------------
(* The collaborators *)

\* the agent the registry holds for a session
AgentOf(session_id) == [agent_of |-> session_id]

\* AppState::get_agent_for_route: the agent of the session, or a status
get_agent_for_route(session_id) ==
    { Ok(AgentOf(session_id)), Err(INTERNAL_SERVER_ERROR) }

\* the provider handle an agent's extension manager holds
ProviderOf(a) == [provider_of |-> a]

\* ExtensionManager::get_provider
get_provider(a) == { Some(ProviderOf(a)), None }

\* Provider::complete
complete(provider, system_prompt, messages, tools) == CompletionReplies

----------------------------------------------------------------------------
(* handle_sampling_request *)

PendingStatus ==
    [ status |-> "pending",
      message |-> "Sampling request received. Awaiting user approval." ]

\* intake that starts the sampling itself instead of waiting for the reviewer
sampling_request_processed(body) ==
    [call |-> TRUE, session_id |-> body.session_id, request |-> body]

\* what the intake handler does with its state and its body
sampling_request_outcome(body) ==
    [call |-> FALSE, result |-> Ok(PendingStatus)]

----------------------------------------------------------------------------
(* handle_sampling_approval *)

DenialResponse ==
    SamplingResponse(
        SamplingMessage("Assistant", TextContent("Sampling request denied by user.")),
        "none", Some("user_denied"))

\* an edit whose assignment of the replacement is lost
edited_request_unassigned(original_request, edited_messages) == original_request

\* an edit that also drops the original's system prompt
edited_request_fresh(original_request, edited_messages) ==
    [original_request EXCEPT !.messages = edited_messages,
                             !.system_prompt = None]

\* let mut edited_request = request.original_request;
\* edited_request.messages = edited_messages;
edited_request(original_request, edited_messages) ==
    [original_request EXCEPT !.messages = edited_messages]

ProcessSampling(session_id, req) ==
    [call |-> TRUE, session_id |-> session_id, request |-> req]
Return(res) == [call |-> FALSE, result |-> res]

\* an approve that takes the edited messages whenever the body carries some
approve_arm_prefers_edit(body) ==
    ProcessSampling(body.session_id,
        IF body.edited_messages.some
        THEN edited_request(body.original_request, body.edited_messages.value)
        ELSE body.original_request)

\* an approve that resolves the agent of the original request's session
approve_arm_original_session(body) ==
    ProcessSampling(body.original_request.session_id, body.original_request)

approve_arm(body) == ProcessSampling(body.session_id, body.original_request)

\* an edit that falls back to the original messages when it carries none
edit_arm_falls_back(body) ==
    ProcessSampling(body.session_id,
        IF body.edited_messages.some
        THEN edited_request(body.original_request, body.edited_messages.value)
        ELSE body.original_request)

\* an edit that also rejects an empty replacement
edit_arm_rejects_empty(body) ==
    IF body.edited_messages.some /\ Len(body.edited_messages.value) > 0
    THEN ProcessSampling(body.session_id,
             edited_request(body.original_request, body.edited_messages.value))
    ELSE Return(Err(BAD_REQUEST))

edit_arm(body) ==
    IF body.edited_messages.some
    THEN ProcessSampling(body.session_id,
             edited_request(body.original_request, body.edited_messages.value))
    ELSE Return(Err(BAD_REQUEST))

\* a deny that falls through to the approve arm
deny_arm_falls_through(body) == approve_arm(body)

deny_arm(body) == Return(Ok(DenialResponse))

default_arm(body) == Return(Err(BAD_REQUEST))

\* a match that takes the action tag whatever its case
sampling_approval_match_any_case(body) ==
    CASE body.action \in {"approve", "Approve"} -> approve_arm(body)
      [] body.action = "edit" -> edit_arm(body)
      [] body.action = "deny" -> deny_arm(body)
      [] OTHER -> default_arm(body)

\* match request.action.as_str()
sampling_approval_match(body) ==
    CASE body.action = "approve" -> approve_arm(body)
      [] body.action = "edit" -> edit_arm(body)
      [] body.action = "deny" -> deny_arm(body)
      [] OTHER -> default_arm(body)

----------------------------------------------------------------------------
(* process_sampling *)

\* a translation that makes every message a user's
to_message_as_user(msg) ==
    LET text == as_text(msg.content)
    IN IF text.some
       THEN with_text(MessageUser, text.value.text)
       ELSE with_content(MessageUser, ContentInto(msg.content))

\* the closure mapped over request.messages
to_message(msg) ==
    LET message == IF msg.role = "User" THEN MessageUser ELSE MessageAssistant
        text == as_text(msg.content)
    IN IF text.some
       THEN with_text(message, text.value.text)
       ELSE with_content(message, ContentInto(msg.content))

\* request.messages.iter().map(..).collect()
to_messages(msgs) == [i \in 1..Len(msgs) |-> to_message(msgs[i])]

\* a choice of system prompt that takes an empty one for an absent one
system_prompt_unless_empty(req) ==
    IF req.system_prompt.some /\ req.system_prompt.value # ""
    THEN req.system_prompt.value
    ELSE "You are a helpful assistant"

\* request.system_prompt.as_deref().unwrap_or(..)
system_prompt_of(req) ==
    IF req.system_prompt.some THEN req.system_prompt.value
    ELSE "You are a helpful assistant"

\* provider.complete(system_prompt, &messages, &[])
complete_call(provider, req) ==
    [ op |-> "complete", provider |-> provider,
      system_prompt |-> system_prompt_of(req),
      messages |-> to_messages(req.messages), tools |-> <<>>, ret |-> None ]

\* a lookup failure turned into a client error
agent_or_bad_request(r) == IF r.ok THEN Ok(r.value) ELSE Err(BAD_REQUEST)

\* state.get_agent_for_route(session_id.to_string()).await?
agent_or_status(r) == IF r.ok THEN Ok(r.value) ELSE Err(r.error)

\* .ok_or(StatusCode::INTERNAL_SERVER_ERROR)?
provider_or_status(opt) ==
    IF opt.some THEN Ok(opt.value) ELSE Err(INTERNAL_SERVER_ERROR)

\* a completion failure told apart by its kind: too-many-requests on quota
completion_or_kind(r) ==
    IF r.ok THEN Ok(r.value)
    ELSE IF r.error = "quota" THEN Err(429) ELSE Err(INTERNAL_SERVER_ERROR)

\* .map_err(|_| StatusCode::INTERNAL_SERVER_ERROR)?
completion_or_status(r) ==
    IF r.ok THEN Ok(r.value) ELSE Err(INTERNAL_SERVER_ERROR)

\* an extraction that takes the last content block, not the first
response_content_last(response) ==
    IF Len(response.content) > 0
    THEN LET content == response.content[Len(response.content)]
         IN CASE content.kind = "Text" -> TextContent(content.text)
              [] content.kind = "Image" ->
                     ImageContent(content.data, content.mime_type)
              [] OTHER -> TextContent("")
    ELSE TextContent("")

\* Extract the response content
response_content(response) ==
    IF Len(response.content) > 0
    THEN LET content == response.content[1]
         IN CASE content.kind = "Text" -> TextContent(content.text)
              [] content.kind = "Image" ->
                     ImageContent(content.data, content.mime_type)
              [] OTHER -> TextContent("")
    ELSE TextContent("")

\* a response that names no model
sampling_response_unnamed(response, usage) ==
    SamplingResponse(
        SamplingMessage("Assistant", response_content(response)),
        "none", Some("end_turn"))

\* a response that repeats the role the provider's reply came with
sampling_response_reply_role(response, usage) ==
    SamplingResponse(
        SamplingMessage(response.role, response_content(response)),
        usage.model, Some("end_turn"))

\* Create the response
sampling_response(response, usage) ==
    SamplingResponse(
        SamplingMessage("Assistant", response_content(response)),
        usage.model, Some("end_turn"))

----------------------------------------------------------------------------
(* The state machine *)

LastCall(t) == calls[t][Len(calls[t])]

\* the last call of the log has returned r
Answered(log, r) == [log EXCEPT ![Len(log)].ret = Some(r)]

Init ==
    /\ pc = [t \in Tasks |-> "idle"]
    /\ handler = [t \in Tasks |-> "none"]
    /\ request = [t \in Tasks |-> None]
    /\ sampling = [t \in Tasks |-> None]
    /\ agent = [t \in Tasks |-> None]
    /\ calls = [t \in Tasks |-> <<>>]
    /\ result = [t \in Tasks |-> None]

\* the handler returns: its frame is dropped, the result goes to the caller
Finish(t, res) ==
    /\ pc' = [pc EXCEPT ![t] = "done"]
    /\ result' = [result EXCEPT ![t] = Some(res)]
    /\ sampling' = [sampling EXCEPT ![t] = None]
    /\ agent' = [agent EXCEPT ![t] = None]
    /\ UNCHANGED handler

\* a process_sampling that keeps its arguments in one slot all tasks share
EnterProcess_shared_slot(t, session_id, req) ==
    /\ pc' = [pc EXCEPT ![t] = "get_agent_for_route"]
    /\ sampling' = [u \in DOMAIN sampling |->
                       Some([session_id |-> session_id, request |-> req])]
    /\ calls' = [calls EXCEPT
                   ![t] = Append(@, [op |-> "get_agent_for_route",
                                     session_id |-> session_id, ret |-> None])]
    /\ UNCHANGED <<handler, request, agent, result>>

\* process_sampling is entered and suspends at its first await
EnterProcess(t, session_id, req) ==
    /\ pc' = [pc EXCEPT ![t] = "get_agent_for_route"]
    /\ sampling' = [sampling EXCEPT
                      ![t] = Some([session_id |-> session_id, request |-> req])]
    /\ calls' = [calls EXCEPT
                   ![t] = Append(@, [op |-> "get_agent_for_route",
                                     session_id |-> session_id, ret |-> None])]
    /\ UNCHANGED <<handler, request, agent, result>>

\* a handler runs from its entry to its return or to its first await
RunHandler(t, outcome) ==
    IF outcome.call
    THEN EnterProcess(t, outcome.session_id, outcome.request)
    ELSE Finish(t, outcome.result) /\ UNCHANGED <<request, calls>>

\* the router hands one of the bodies to the handler h, on a free task
Routed(t, h, bodies) ==
    /\ pc[t] = "idle"
    /\ \E body \in bodies :
           request' = [request EXCEPT ![t] = Some(body)]
    /\ pc' = [pc EXCEPT ![t] = "entered"]
    /\ handler' = [handler EXCEPT ![t] = h]
    /\ UNCHANGED <<sampling, agent, calls, result>>

\* routes: POST /sampling/request with a SamplingRequest body
route_sampling_request(t) ==
    Routed(t, "handle_sampling_request", SamplingRequests)

\* routes: POST /sampling/approve with a SamplingApprovalRequest body
route_sampling_approve(t) ==
    Routed(t, "handle_sampling_approval", SamplingApprovalRequests)

handle_sampling_request(t) ==
    /\ pc[t] = "entered"
    /\ handler[t] = "handle_sampling_request"
    /\ RunHandler(t, sampling_request_outcome(request[t].value))

handle_sampling_approval(t) ==
    /\ pc[t] = "entered"
    /\ handler[t] = "handle_sampling_approval"
    /\ RunHandler(t, sampling_approval_match(request[t].value))

\* process_sampling resumes with the agent lookup's answer
process_sampling_agent(t) ==
    /\ pc[t] = "get_agent_for_route"
    /\ \E r \in get_agent_for_route(LastCall(t).session_id) :
       LET a == agent_or_status(r)
           log == Answered(calls[t], r)
       IN IF a.ok
          THEN /\ pc' = [pc EXCEPT ![t] = "get_provider"]
               /\ agent' = [agent EXCEPT ![t] = Some(a.value)]
               /\ calls' = [calls EXCEPT
                              ![t] = Append(log, [op |-> "get_provider",
                                                  agent |-> a.value,
                                                  ret |-> None])]
               /\ UNCHANGED <<handler, request, sampling, result>>
          ELSE /\ Finish(t, Err(a.error))
               /\ calls' = [calls EXCEPT ![t] = log]
               /\ UNCHANGED request

\* a process_sampling that refuses a request without any text message before
\* it calls the completion
process_sampling_provider_validating(t) ==
    /\ pc[t] = "get_provider"
    /\ \E opt \in get_provider(LastCall(t).agent) :
       LET p == provider_or_status(opt)
           log == Answered(calls[t], opt)
           req == sampling[t].value.request
           texts == { i \in 1..Len(req.messages) :
                          req.messages[i].content.type = "text" }
       IN IF p.ok /\ texts # {}
          THEN /\ pc' = [pc EXCEPT ![t] = "complete"]
               /\ calls' = [calls EXCEPT
                              ![t] = Append(log, complete_call(p.value, req))]
               /\ UNCHANGED <<handler, request, sampling, agent, result>>
          ELSE /\ Finish(t, Err(IF p.ok THEN BAD_REQUEST ELSE p.error))
               /\ calls' = [calls EXCEPT ![t] = log]
               /\ UNCHANGED request

\* process_sampling resumes with the provider lookup's answer
process_sampling_provider(t) ==
    /\ pc[t] = "get_provider"
    /\ \E opt \in get_provider(LastCall(t).agent) :
       LET p == provider_or_status(opt)
           log == Answered(calls[t], opt)
       IN IF p.ok
          THEN /\ pc' = [pc EXCEPT ![t] = "complete"]
               /\ calls' = [calls EXCEPT
                              ![t] = Append(log,
                                         complete_call(p.value,
                                                       sampling[t].value.request))]
               /\ UNCHANGED <<handler, request, sampling, agent, result>>
          ELSE /\ Finish(t, Err(p.error))
               /\ calls' = [calls EXCEPT ![t] = log]
               /\ UNCHANGED request

\* a completion that is called once more when it has failed the first time
process_sampling_complete_retrying(t) ==
    /\ pc[t] = "complete"
    /\ \E r \in complete(LastCall(t).provider, LastCall(t).system_prompt,
                        LastCall(t).messages, LastCall(t).tools) :
       LET c == completion_or_status(r)
       IN IF ~c.ok /\ Len(calls[t]) = 3
          THEN /\ calls' = [calls EXCEPT
                              ![t] = Append(Answered(@, r),
                                            [LastCall(t) EXCEPT !.ret = None])]
               /\ UNCHANGED <<pc, handler, request, sampling, agent, result>>
          ELSE /\ calls' = [calls EXCEPT ![t] = Answered(@, r)]
               /\ IF c.ok
                  THEN Finish(t, Ok(sampling_response(c.value.response,
                                                      c.value.usage)))
                  ELSE Finish(t, Err(c.error))
               /\ request' = [request EXCEPT ![t] = None]

\* process_sampling resumes with the completion's answer
process_sampling_complete(t) ==
    /\ pc[t] = "complete"
    /\ \E r \in complete(LastCall(t).provider, LastCall(t).system_prompt,
                        LastCall(t).messages, LastCall(t).tools) :
       LET c == completion_or_status(r)
       IN /\ calls' = [calls EXCEPT ![t] = Answered(@, r)]
          /\ IF c.ok
             THEN Finish(t, Ok(sampling_response(c.value.response,
                                                 c.value.usage)))
             ELSE Finish(t, Err(c.error))
    /\ request' = [request EXCEPT ![t] = None]

\* the response is written out and the task is free again
Respond(t) ==
    /\ pc[t] = "done"
    /\ pc' = [pc EXCEPT ![t] = "idle"]
    /\ handler' = [handler EXCEPT ![t] = "none"]
    /\ request' = [request EXCEPT ![t] = None]
    /\ calls' = [calls EXCEPT ![t] = <<>>]
    /\ result' = [result EXCEPT ![t] = None]
    /\ UNCHANGED <<sampling, agent>>

Next ==
    \E t \in Tasks :
        \/ route_sampling_request(t)
        \/ route_sampling_approve(t)
        \/ handle_sampling_request(t)
        \/ handle_sampling_approval(t)
        \/ process_sampling_agent(t)
        \/ process_sampling_provider(t)
        \/ process_sampling_complete(t)
        \/ Respond(t)

Spec == Init /\ [][Next]_vars

----------------------------------------------------------------------------
(* What the claims speak of *)

\* task t is serving a reviewer's decision whose body is still remembered
Deciding(t) == handler[t] = "handle_sampling_approval" /\ request[t].some

Decision(t) == request[t].value

\* the calls of task t's invocation to the collaborator operation op
CallsTo(t, op) == { i \in 1..Len(calls[t]) : calls[t][i].op = op }

Untouched(t) == calls[t] = <<>>

\* the internal message m is the wire message w in the provider's form:
\* the same role, and the one content block that holds w's content
IsTranslation(m, w) ==
    /\ m.role = w.role
    /\ Len(m.content) = 1
    /\ w.content.type = "text" =>
           m.content[1] = [kind |-> "Text", text |-> w.content.text]
    /\ w.content.type = "image" =>
           m.content[1] = [kind |-> "Image", data |-> w.content.data,
                           mime_type |-> w.content.mime_type]

\* same length, same order, same roles and contents
IsTranslationOf(sent, msgs) ==
    /\ Len(sent) = Len(msgs)
    /\ \A i \in 1..Len(msgs) : IsTranslation(sent[i], msgs[i])

----------------------------------------------------------------------------
(* C1 *)

\* C1: a decision with action deny, whatever else its body holds, returns
\* the successful response with role Assistant, the fixed denial text, model
\* "none" and stop-reason user_denied, and its invocation calls neither the
\* agent lookup nor the provider lookup nor the completion.
C1_DenyIsPure ==
    \A t \in Tasks :
        (Deciding(t) /\ Decision(t).action = "deny") =>
            /\ pc[t] \in {"entered", "done"}
            /\ Untouched(t)
            /\ pc[t] = "done" =>
                   result[t] =
                       Some(Ok([ message |->
                                     [ role |-> "Assistant",
                                       content |->
                                           [ type |-> "text",
                                             text |-> "Sampling request denied by user." ] ],
                                 model |-> "none",
                                 stop_reason |-> Some("user_denied") ]))

C1_Witness ==
    \E t \in Tasks :
        /\ Deciding(t) /\ Decision(t).action = "deny" /\ pc[t] = "done"
        /\ Decision(t).edited_messages.some
        /\ Len(Decision(t).original_request.messages) = MaxMessages
        /\ result[t].value.ok

----------------------------------------------------------------------------
(* C2 *)

\* C2: a decision with action edit and no replacement sequence fails with
\* the bad-request status, never with a server error and never with a
\* response, and no collaborator has been called when it fails.
C2_EditWithoutReplacementIsBadRequest ==
    \A t \in Tasks :
        (Deciding(t) /\ Decision(t).action = "edit"
                     /\ ~Decision(t).edited_messages.some) =>
            /\ pc[t] \in {"entered", "done"}
            /\ Untouched(t)
            /\ pc[t] = "done" =>
                   /\ ~result[t].value.ok
                   /\ result[t].value.error = BAD_REQUEST
                   /\ result[t].value.error # INTERNAL_SERVER_ERROR

C2_Witness ==
    \E t \in Tasks :
        /\ Deciding(t) /\ Decision(t).action = "edit" /\ pc[t] = "done"
        /\ ~Decision(t).edited_messages.some
        /\ Len(Decision(t).original_request.messages) > 0
        /\ ~result[t].value.ok

----------------------------------------------------------------------------
(* C3 *)

\* the completion of an edit decision with a non-empty replacement is pending
EditCompleting(t) ==
    /\ Deciding(t) /\ Decision(t).action = "edit"
    /\ Decision(t).edited_messages.some
    /\ Decision(t).edited_messages.value # <<>>
    /\ pc[t] = "complete"

\* C3 as claimed: the messages the completion receives for an edit with a
\* non-empty replacement are the translation of the replacement and hold no
\* message of the original request's sequence.
C3_EditHoldsNoOriginalMessage ==
    \A t \in Tasks :
        EditCompleting(t) =>
            LET sent == LastCall(t).messages
                orig == Decision(t).original_request.messages
            IN /\ IsTranslationOf(sent, Decision(t).edited_messages.value)
               /\ \A i \in 1..Len(sent), j \in 1..Len(orig) :
                      ~IsTranslation(sent[i], orig[j])

\* C3 as amended: the messages the completion receives for an edit with a
\* non-empty replacement are the translation of exactly the replacement
\* (same length, order, roles and contents); one of them is a message of the
\* original sequence only where the replacement itself holds that message.
C3_EditSendsReplacement ==
    \A t \in Tasks :
        EditCompleting(t) =>
            LET sent == LastCall(t).messages
                repl == Decision(t).edited_messages.value
                orig == Decision(t).original_request.messages
            IN /\ LastCall(t).op = "complete"
               /\ IsTranslationOf(sent, repl)
               /\ \A i \in 1..Len(sent), j \in 1..Len(orig) :
                      IsTranslation(sent[i], orig[j]) => repl[i] = orig[j]

\* the replacement and the original differ in length and in every message
C3_Witness ==
    \E t \in Tasks :
        /\ EditCompleting(t)
        /\ Len(Decision(t).edited_messages.value) = 1
        /\ Len(Decision(t).original_request.messages) = MaxMessages
        /\ \A j \in 1..MaxMessages :
               Decision(t).original_request.messages[j]
                   # Decision(t).edited_messages.value[1]
        /\ Len(LastCall(t).messages) = 1

----------------------------------------------------------------------------
(* C4 *)

\* process_sampling has been entered for the decision task t is serving
Processing(t) == CallsTo(t, "get_agent_for_route") # {}

\* C4 as claimed: process_sampling is entered for an edit decision only when
\* the replacement is present and holds at least one message; any other edit
\* decision fails with the bad-request status.
C4_EditRequiresNonEmptyReplacement ==
    \A t \in Tasks :
        (Deciding(t) /\ Decision(t).action = "edit") =>
            LET nonempty == /\ Decision(t).edited_messages.some
                            /\ Len(Decision(t).edited_messages.value) >= 1
            IN /\ Processing(t) => nonempty
               /\ (pc[t] = "done" /\ ~nonempty) =>
                      result[t] = Some(Err(BAD_REQUEST))

\* C4 as amended: process_sampling is entered for an edit decision exactly
\* when the replacement is present, be it empty or not; an edit decision
\* fails with the bad-request status exactly when the replacement is absent.
C4_EditRequiresReplacement ==
    \A t \in Tasks :
        (Deciding(t) /\ Decision(t).action = "edit" /\ pc[t] # "entered") =>
            /\ Processing(t) <=> Decision(t).edited_messages.some
            /\ pc[t] = "done" =>
                   (result[t] = Some(Err(BAD_REQUEST))
                        <=> ~Decision(t).edited_messages.some)

\* an empty replacement has reached the provider's completion
C4_Witness ==
    \E t \in Tasks :
        /\ Deciding(t) /\ Decision(t).action = "edit"
        /\ Decision(t).edited_messages = Some(<<>>)
        /\ Len(Decision(t).original_request.messages) > 0
        /\ pc[t] = "complete"
        /\ LastCall(t).messages = <<>>

----------------------------------------------------------------------------
(* C5 *)

\* C5: the messages the completion receives for an approve decision are the
\* translation of exactly the original request's sequence, whether or not
\* the decision carries a replacement.
C5_ApproveSendsOriginal ==
    \A t \in Tasks :
        (Deciding(t) /\ Decision(t).action = "approve" /\ pc[t] = "complete") =>
            /\ LastCall(t).op = "complete"
            /\ IsTranslationOf(LastCall(t).messages,
                               Decision(t).original_request.messages)

C5_Witness ==
    \E t \in Tasks :
        /\ Deciding(t) /\ Decision(t).action = "approve" /\ pc[t] = "complete"
        /\ Decision(t).edited_messages.some
        /\ Len(Decision(t).edited_messages.value) = 1
        /\ Len(Decision(t).original_request.messages) = MaxMessages
        /\ Len(LastCall(t).messages) = MaxMessages

----------------------------------------------------------------------------
(* C6 *)

\* C6: a decision whose action is no one of exactly approve, edit and deny
\* fails with the bad-request status, and its invocation calls no
\* collaborator.
C6_UnknownActionIsBadRequest ==
    \A t \in Tasks :
        (Deciding(t) /\ Decision(t).action \notin {"approve", "edit", "deny"}) =>
            /\ pc[t] \in {"entered", "done"}
            /\ Untouched(t)
            /\ pc[t] = "done" => result[t] = Some(Err(BAD_REQUEST))

C6_Witness ==
    \E t \in Tasks :
        /\ Deciding(t) /\ Decision(t).action = "Approve" /\ pc[t] = "done"
        /\ Decision(t).edited_messages.some
        /\ ~result[t].value.ok

----------------------------------------------------------------------------
(* C7 *)

----------------------------------------------------------------------------
(* C8 *)

\* C8: a successful response that came of a completion carries the model
\* the provider reported for that completion and the stop-reason end_turn,
\* whatever the provider's reply holds; a successful response that came of
\* no completion is the one of a deny decision, so "none" and user_denied
\* appear on deny responses alone unless the provider's model is "none".
C8_ResponseCarriesProviderModel ==
    \A t \in Tasks :
        (handler[t] = "handle_sampling_approval" /\ pc[t] = "done"
            /\ result[t].value.ok) =>
            LET body == result[t].value.value
            IN IF Untouched(t)
               THEN Deciding(t) /\ Decision(t).action = "deny"
               ELSE /\ LastCall(t).op = "complete"
                    /\ LastCall(t).ret.some
                    /\ LastCall(t).ret.value.ok
                    /\ body.model = LastCall(t).ret.value.value.usage.model
                    /\ body.stop_reason = Some("end_turn")
                    /\ body.stop_reason # Some("user_denied")
                    /\ Cardinality(CallsTo(t, "complete")) = 1

C8_Witness ==
    \E t \in Tasks :
        /\ handler[t] = "handle_sampling_approval" /\ pc[t] = "done"
        /\ result[t].value.ok
        /\ ~Untouched(t)
        /\ LastCall(t).ret.value.value.usage.model = "stub-1"
        /\ LastCall(t).ret.value.value.response.content = <<>>
        /\ result[t].value.value.model = "stub-1"

----------------------------------------------------------------------------
(* C9 *)

\* the agent lookup of task t's invocation has found no agent
AgentMissing(t) ==
    \E i \in CallsTo(t, "get_agent_for_route") :
        calls[t][i].ret.some /\ ~calls[t][i].ret.value.ok

\* C9: an approve or edit decision whose session resolves to no agent fails
\* with the internal-server-error status, not with a bad request and not
\* with a response, and calls neither the provider lookup nor the
\* completion.
C9_MissingAgentIsServerError ==
    \A t \in Tasks :
        AgentMissing(t) =>
            /\ Deciding(t) /\ Decision(t).action \in {"approve", "edit"}
            /\ pc[t] = "done"
            /\ result[t] = Some(Err(INTERNAL_SERVER_ERROR))
            /\ CallsTo(t, "get_provider") = {}
            /\ CallsTo(t, "complete") = {}

C9_Witness ==
    \E t \in Tasks :
        /\ AgentMissing(t) /\ pc[t] = "done"
        /\ Decision(t).action = "edit"
        /\ ~result[t].value.ok

----------------------------------------------------------------------------
(* C10 *)

\* the provider lookup of task t's invocation has found no provider
ProviderMissing(t) ==
    \E i \in CallsTo(t, "get_provider") :
        calls[t][i].ret.some /\ ~calls[t][i].ret.value.some

\* the completion of task t's invocation has failed
CompletionFailed(t) ==
    \E i \in CallsTo(t, "complete") :
        calls[t][i].ret.some /\ ~calls[t][i].ret.value.ok

\* C10: a decision whose agent has no provider fails with the
\* internal-server-error status without the completion being called; a
\* decision whose completion fails, for whatever reason, fails with that
\* same status and nothing else: no response, no detail of the failure.
C10_ProviderFailuresAreServerErrors ==
    \A t \in Tasks :
        /\ ProviderMissing(t) =>
               /\ pc[t] = "done"
               /\ result[t] = Some([ok |-> FALSE, error |-> INTERNAL_SERVER_ERROR])
               /\ CallsTo(t, "complete") = {}
        /\ CompletionFailed(t) =>
               /\ pc[t] = "done"
               /\ result[t] = Some([ok |-> FALSE, error |-> INTERNAL_SERVER_ERROR])

C10_Witness ==
    \E t \in Tasks :
        /\ CompletionFailed(t) /\ pc[t] = "done"
        /\ LastCall(t).ret.value.error = "quota"
        /\ ~result[t].value.ok

----------------------------------------------------------------------------
(* C11 *)

\* how many times a call log holds a call of the completion
CompleteCount(log) ==
    Cardinality({ i \in 1..Len(log) : log[i].op = "complete" })

\* every call of the log has returned
AllAnswered(log) == \A i \in 1..Len(log) : log[i].ret.some

C11_AtMostOnce(t) ==
    /\ CompleteCount(calls[t]) <= 1
    /\ (handler[t] = "handle_sampling_approval" /\ pc[t] = "done"
            /\ result[t].value.ok
            /\ ~(Deciding(t) /\ Decision(t).action = "deny")) =>
           CompleteCount(calls[t]) = 1
    /\ CompletionFailed(t) =>
           /\ pc[t] = "done"
           /\ ~result[t].value.ok
           /\ CompleteCount(calls[t]) = 1
    /\ pc[t] = "done" =>
           /\ AllAnswered(calls[t])
           /\ sampling[t] = None
           /\ agent[t] = None
    /\ pc[t] = "idle" => calls[t] = <<>>

C11_NoRetry(t) ==
    /\ pc[t] = "done" =>
           \/ pc'[t] = "done" /\ calls'[t] = calls[t]
           \/ pc'[t] = "idle" /\ calls'[t] = <<>>
    /\ CompleteCount(calls'[t]) > CompleteCount(calls[t]) =>
           /\ pc[t] = "get_provider"
           /\ CompleteCount(calls[t]) = 0

\* C11: an invocation calls the provider's completion at most once: exactly
\* once when an approve or edit decision returns a response, and not again
\* when the completion has failed; a decision that has returned has no call
\* pending and its task can only go back to waiting for a new request, so
\* another completion is called only for a newly submitted decision.
C11_CompletionAtMostOncePerDecision ==
    /\ [](\A t \in Tasks : C11_AtMostOnce(t))
    /\ [][\A t \in Tasks : C11_NoRetry(t)]_vars

\* a decision has returned its failure after one failed completion
C11_Witness ==
    \E t \in Tasks :
        /\ CompletionFailed(t) /\ pc[t] = "done"
        /\ CompleteCount(calls[t]) = 1
        /\ result[t] = Some(Err(INTERNAL_SERVER_ERROR))

----------------------------------------------------------------------------
(* C12 *)

(* Two requests served at once.  Each of the two tasks runs the handlers   *)
(* as above, and the steps of the two interleave at every await.  The      *)
(* decisions are drawn from a few that differ in every field.              *)

ConcurrentTasks == {"t1", "t2"}

\* the request of session s1: one text message, no system prompt
RequestOne ==
    CHOOSE r \in SamplingRequests :
        /\ r.session_id = "s1"
        /\ r.messages = <<SamplingMessage("User", TextContent("2+2?"))>>
        /\ r.system_prompt = None

\* the request of session s2: an image and a text, with a system prompt
RequestTwo ==
    CHOOSE r \in SamplingRequests :
        /\ r.session_id = "s2"
        /\ r.messages =
               << SamplingMessage("User", ImageContent("iVBORw0KGgo=", "image/png")),
                  SamplingMessage("Assistant", TextContent("4")) >>
        /\ r.system_prompt = Some("Answer briefly")

ConcurrentRequests == {RequestOne, RequestTwo}

ReviewerDecision(session_id, original_request, action, edited_messages) ==
    [ session_id |-> session_id, original_request |-> original_request,
      action |-> action, edited_messages |-> edited_messages ]

ReplacementOne == <<SamplingMessage("Assistant", TextContent("4"))>>

ConcurrentDecisions ==
    { ReviewerDecision("s1", RequestOne, "approve", None),
      ReviewerDecision("s2", RequestTwo, "approve", Some(ReplacementOne)),
      ReviewerDecision("s1", RequestTwo, "edit", Some(ReplacementOne)),
      ReviewerDecision("s2", RequestOne, "edit", None),
      ReviewerDecision("s1", RequestOne, "deny", None) }

InitConcurrent ==
    /\ pc = [t \in ConcurrentTasks |-> "idle"]
    /\ handler = [t \in ConcurrentTasks |-> "none"]
    /\ request = [t \in ConcurrentTasks |-> None]
    /\ sampling = [t \in ConcurrentTasks |-> None]
    /\ agent = [t \in ConcurrentTasks |-> None]
    /\ calls = [t \in ConcurrentTasks |-> <<>>]
    /\ result = [t \in ConcurrentTasks |-> None]

route_concurrent_request(t) ==
    Routed(t, "handle_sampling_request", ConcurrentRequests)

route_concurrent_approve(t) ==
    Routed(t, "handle_sampling_approval", ConcurrentDecisions)

NextConcurrent ==
    \E t \in ConcurrentTasks :
        \/ route_concurrent_request(t)
        \/ route_concurrent_approve(t)
        \/ handle_sampling_request(t)
        \/ handle_sampling_approval(t)
        \/ process_sampling_agent(t)
        \/ process_sampling_provider(t)
        \/ process_sampling_complete(t)
        \/ Respond(t)

SpecConcurrent == InitConcurrent /\ [][NextConcurrent]_vars

\* the messages a decision asks the provider to complete
ChosenMessages(d) ==
    IF d.action = "edit" THEN d.edited_messages.value
    ELSE d.original_request.messages

\* what task t passes to the collaborators is made of its own decision and
\* of the answers to its own calls
C12_OwnCalls(t) ==
    (Deciding(t) /\ Processing(t)) =>
        /\ Decision(t).action \in {"approve", "edit"}
        /\ calls[t][1].op = "get_agent_for_route"
        /\ calls[t][1].session_id = Decision(t).session_id
        /\ \A i \in CallsTo(t, "get_provider") :
               /\ i = 2
               /\ calls[t][1].ret = Some(Ok(calls[t][i].agent))
        /\ \A i \in CallsTo(t, "complete") :
               /\ i = 3
               /\ calls[t][2].ret = Some(Some(calls[t][i].provider))
               /\ IsTranslationOf(calls[t][i].messages,
                                  ChosenMessages(Decision(t)))
               /\ calls[t][i].system_prompt =
                      (IF Decision(t).original_request.system_prompt.some
                       THEN Decision(t).original_request.system_prompt.value
                       ELSE "You are a helpful assistant")

\* what task t returns is made of the answers to its own calls
C12_OwnOutcome(t) ==
    (handler[t] = "handle_sampling_approval" /\ pc[t] = "done"
        /\ ~Untouched(t)) =>
        LET last == LastCall(t)
            answered == /\ last.op = "complete" /\ last.ret.value.ok
        IN /\ last.ret.some
           /\ result[t].value.ok <=> answered
           /\ answered =>
                  result[t].value.value.model = last.ret.value.value.usage.model
           /\ ~answered => result[t].value.error = INTERNAL_SERVER_ERROR

\* a step of one task leaves everything of the other tasks as it was
C12_Frame ==
    \A t \in ConcurrentTasks, u \in ConcurrentTasks :
        (t # u /\ pc'[u] # pc[u]) =>
            /\ pc'[t] = pc[t] /\ handler'[t] = handler[t]
            /\ request'[t] = request[t] /\ sampling'[t] = sampling[t]
            /\ agent'[t] = agent[t] /\ calls'[t] = calls[t]
            /\ result'[t] = result[t]

\* C12: when two decisions are served at once, under every interleaving of
\* their lookups and completions, what each passes to the provider and what
\* each returns is made of its own request and of the collaborators' answers
\* to it alone, and no step of one changes anything the other holds.
C12_DecisionsDoNotInterfere ==
    /\ [](\A t \in ConcurrentTasks : C12_OwnCalls(t) /\ C12_OwnOutcome(t))
    /\ [][C12_Frame]_vars

\* two decisions of one session, an approve and an edit, both wait for
\* their completions with different messages
C12_Witness ==
    /\ pc["t1"] = "complete" /\ pc["t2"] = "complete"
    /\ Decision("t1").action = "approve" /\ Decision("t2").action = "edit"
    /\ Decision("t1").session_id = Decision("t2").session_id
    /\ LastCall("t1").messages # LastCall("t2").messages
    /\ LastCall("t1").system_prompt # LastCall("t2").system_prompt

----------------------------------------------------------------------------
(* C13 *)

\* the completion of task t's invocation has answered with a reply
CompletionReplied(t) ==
    /\ handler[t] = "handle_sampling_approval" /\ pc[t] = "done"
    /\ ~Untouched(t)
    /\ LastCall(t).op = "complete"
    /\ LastCall(t).ret.value.ok

ReplyOf(t) == LastCall(t).ret.value.value

\* C13: the content of the response is made of the first content block of
\* the provider's reply alone: that text if it is a text, that image (data
\* and MIME type) if it is an image, the empty text if it is of another
\* kind or if the reply has no block; the decision succeeds all the same,
\* with the provider's model and stop-reason end_turn.
C13_ResponseContentIsFirstBlock ==
    \A t \in Tasks :
        CompletionReplied(t) =>
            LET blocks == ReplyOf(t).response.content
                body == result[t].value.value
            IN /\ result[t].value.ok
               /\ body.model = ReplyOf(t).usage.model
               /\ body.stop_reason = Some("end_turn")
               /\ blocks = <<>> =>
                      body.message.content = [type |-> "text", text |-> ""]
               /\ (blocks # <<>> /\ blocks[1].kind = "Text") =>
                      body.message.content =
                          [type |-> "text", text |-> blocks[1].text]
               /\ (blocks # <<>> /\ blocks[1].kind = "Image") =>
                      body.message.content =
                          [ type |-> "image", data |-> blocks[1].data,
                            mime_type |-> blocks[1].mime_type ]
               /\ (blocks # <<>> /\ blocks[1].kind \notin {"Text", "Image"}) =>
                      body.message.content = [type |-> "text", text |-> ""]

\* a reply whose first block is a tool request and whose second is a text
C13_Witness ==
    \E t \in Tasks :
        /\ CompletionReplied(t)
        /\ Len(ReplyOf(t).response.content) = 2
        /\ ReplyOf(t).response.content[1].kind = "ToolRequest"
        /\ ReplyOf(t).response.content[2].kind = "Text"
        /\ result[t].value.value.message.content.text = ""

----------------------------------------------------------------------------
(* C14 *)

\* C14: the completion is called with the system prompt of the request
\* process_sampling was given when that request has one, the empty string
\* included, with "You are a helpful assistant" when it has none, and with
\* an empty set of tools.
C14_SystemPromptOrDefault ==
    \A t \in Tasks :
        pc[t] = "complete" =>
            LET given == sampling[t].value.request.system_prompt
            IN /\ LastCall(t).op = "complete"
               /\ given.some => LastCall(t).system_prompt = given.value
               /\ ~given.some =>
                      LastCall(t).system_prompt = "You are a helpful assistant"
               /\ LastCall(t).tools = <<>>

\* a request whose system prompt is the empty string has reached the provider
C14_Witness ==
    \E t \in Tasks :
        /\ pc[t] = "complete"
        /\ sampling[t].value.request.system_prompt = Some("")
        /\ LastCall(t).system_prompt = ""
        /\ LastCall(t).tools = <<>>

----------------------------------------------------------------------------
(* C15 *)

\* C15: the messages the completion is called with are as many as the
\* messages of the request process_sampling was given, in the same order;
\* the i-th has the role of the i-th and, for a text, its text as its one
\* content block; and the outbound translation of the internal form of a
\* text message is the text content the message had.
C15_InboundKeepsOrderRoleAndText ==
    \A t \in Tasks :
        pc[t] = "complete" =>
            LET wire == sampling[t].value.request.messages
                sent == LastCall(t).messages
            IN /\ Len(sent) = Len(wire)
               /\ \A i \in 1..Len(wire) :
                      /\ sent[i].role = wire[i].role
                      /\ wire[i].content.type = "text" =>
                             /\ sent[i].content =
                                    <<[kind |-> "Text",
                                       text |-> wire[i].content.text]>>
                             /\ response_content(sent[i]) =
                                    [type |-> "text",
                                     text |-> wire[i].content.text]

\* two text messages of different roles and texts have been translated
C15_Witness ==
    \E t \in Tasks :
        /\ pc[t] = "complete"
        /\ Len(LastCall(t).messages) = 2
        /\ sampling[t].value.request.messages[1].role = "Assistant"
        /\ sampling[t].value.request.messages[2].role = "User"
        /\ sampling[t].value.request.messages[1].content.type = "text"
        /\ sampling[t].value.request.messages[2].content.type = "text"
        /\ LastCall(t).messages[1].role = "Assistant"
        /\ response_content(LastCall(t).messages[2]).text = "2+2?"

----------------------------------------------------------------------------
(* C16 *)

\* the request with its message sequence blanked: every other field
OtherFields(req) == [req EXCEPT !.messages = <<>>]

\* C16: for an edit decision with a replacement, the request process_sampling
\* works on differs from the original request in its message sequence only;
\* and for an approve or such an edit the completion is called with the
\* original request's system prompt, or the default one if it had none, and
\* with no tools.
C16_EditChangesMessagesOnly ==
    \A t \in Tasks :
        (Deciding(t) /\ sampling[t].some) =>
            LET d == Decision(t)
                original == d.original_request
            IN /\ (d.action = "edit") =>
                      /\ d.edited_messages.some
                      /\ sampling[t].value.request.messages =
                             d.edited_messages.value
                      /\ OtherFields(sampling[t].value.request) =
                             OtherFields(original)
               /\ (pc[t] = "complete") =>
                      /\ LastCall(t).system_prompt =
                             (IF original.system_prompt.some
                              THEN original.system_prompt.value
                              ELSE "You are a helpful assistant")
                      /\ LastCall(t).tools = <<>>

\* an edit whose replacement differs from the messages of an original that
\* has a system prompt of its own is at the completion
C16_Witness ==
    \E t \in Tasks :
        /\ Deciding(t) /\ pc[t] = "complete"
        /\ Decision(t).action = "edit"
        /\ Decision(t).edited_messages.some
        /\ Decision(t).edited_messages.value #
               Decision(t).original_request.messages
        /\ Decision(t).original_request.system_prompt = Some("Answer briefly")
        /\ LastCall(t).system_prompt = "Answer briefly"
        /\ LastCall(t).messages # to_messages(Decision(t).original_request.messages)

----------------------------------------------------------------------------
(* C17 *)

\* C17: the agent of an approve or edit decision is looked up by the
\* decision's own session_id, whatever session_id its original request
\* carries, and the provider asked and called is that agent's.
C17_AgentOfTheDecisionsSession ==
    \A t \in Tasks :
        Deciding(t) =>
            \A i \in 1..Len(calls[t]) :
                LET call == calls[t][i]
                    own == AgentOf(Decision(t).session_id)
                IN /\ call.op = "get_agent_for_route" =>
                       call.session_id = Decision(t).session_id
                   /\ call.op = "get_provider" => call.agent = own
                   /\ call.op = "complete" =>
                       call.provider = ProviderOf(own)

\* a decision whose session differs from its original request's session has
\* reached the completion
C17_Witness ==
    \E t \in Tasks :
        /\ Deciding(t) /\ pc[t] = "complete"
        /\ Decision(t).session_id # Decision(t).original_request.session_id
        /\ calls[t][1].session_id = Decision(t).session_id
        /\ LastCall(t).provider = ProviderOf(AgentOf(Decision(t).session_id))

----------------------------------------------------------------------------
(* C18 *)

\* C18: the message of every response a decision succeeds with, a denial's
\* and an approve's or edit's alike, has the role Assistant, whatever role
\* the provider's reply has and whatever roles the request's messages have.
C18_ResponseRoleIsAssistant ==
    \A t \in Tasks :
        ( /\ handler[t] = "handle_sampling_approval"
          /\ pc[t] = "done"
          /\ result[t].value.ok ) =>
            result[t].value.value.message.role = "Assistant"

\* a completion called with user messages only has replied in the user's
\* role, and the decision has succeeded
C18_Witness ==
    \E t \in Tasks :
        /\ CompletionReplied(t)
        /\ ReplyOf(t).response.role = "User"
        /\ LastCall(t).messages # <<>>
        /\ \A i \in 1..Len(LastCall(t).messages) :
               LastCall(t).messages[i].role = "User"
        /\ result[t].value.ok
        /\ result[t].value.value.message.role = "Assistant"

----------------------------------------------------------------------------
(* C19 *)

ProcessSteps == <<"get_agent_for_route", "get_provider", "complete">>

\* the calls of the log are the first steps of process_sampling, in order
C19_InOrder(log) ==
    /\ Len(log) <= Len(ProcessSteps)
    /\ \A i \in 1..Len(log) : log[i].op = ProcessSteps[i]

\* a step is in the log only when the step before it has succeeded, and the
\* completion is in the log as soon as both lookups have succeeded
C19_AfterSuccess(log) ==
    /\ Len(log) >= 2 => (log[1].ret.some /\ log[1].ret.value.ok)
    /\ Len(log) >= 3 => (log[2].ret.some /\ log[2].ret.value.some)
    /\ (Len(log) >= 2 /\ log[2].ret.some /\ log[2].ret.value.some) =>
           Len(log) >= 3

\* a step of an invocation adds calls at the end of its log and leaves the
\* calls made before where they are; the log is emptied only when the
\* invocation has returned and its task is freed
C19_LogGrows(t) ==
    \/ /\ Len(calls'[t]) >= Len(calls[t])
       /\ \A i \in 1..Len(calls[t]) : calls'[t][i].op = calls[t][i].op
    \/ pc[t] = "done" /\ pc'[t] = "idle" /\ calls'[t] = <<>>

\* C19: within one approve or edit invocation the collaborators are called
\* in the order agent lookup, provider lookup, completion, each at most
\* once; the completion is called only after both lookups have succeeded,
\* and it is called whenever they have: nothing between the provider lookup
\* and the completion fails, whether the messages are empty, images or
\* texts.
C19_LookupsThenCompletion ==
    /\ [](\A t \in Tasks : C19_InOrder(calls[t]) /\ C19_AfterSuccess(calls[t]))
    /\ [][\A t \in Tasks : C19_LogGrows(t)]_vars

\* after both lookups have succeeded the completion has been called with
\* no message at all and has replied
C19_Witness ==
    \E t \in Tasks :
        /\ CompletionReplied(t)
        /\ Len(calls[t]) = 3
        /\ calls[t][1].ret.value.ok
        /\ calls[t][2].ret.value.some
        /\ calls[t][3].messages = <<>>
        /\ result[t].value.ok

====
